---- MODULE Spec2Model ----
(***************************************************************************)
(* Model of xml_data_scrapper.py: extraction of the "Station" instances of *)
(* a UML model serialised as XMI, and their export to a JSON file.         *)
(*                                                                         *)
(* A parsed document (the BeautifulSoup object) is a sequence of elements  *)
(* in document order; each element carries its tag, the index of its       *)
(* parent (0 is the document itself) and its XML attributes.  An element   *)
(* is identified by its index, as a bs4 Tag is identified by its position  *)
(* in the tree.                                                            *)
(*                                                                         *)
(* The documents are those of the data model: an element carries the       *)
(* attributes the code subscripts (xmi:id of a class and of an             *)
(* ownedAttribute, name of an instance and of an ownedAttribute,           *)
(* definingFeature of a slot, symbol of a value), so that no KeyError is   *)
(* raised; identifiers need not be unique.  The input file is written one  *)
(* element at a time before main, or a single function, is run on it.      *)
(* Reading the input file and opening or writing the output file may fail. *)
(***************************************************************************)
EXTENDS Integers, Sequences, FiniteSets, TLC

(* ---------------------------------------------------------------------- *)
(* Bounds                                                                  *)
(* ---------------------------------------------------------------------- *)
\* largest number of elements of a document given to a single function
MaxNodes == 5
\* largest number of elements of a document given to main
MaxMainNodes == 4

(* ---------------------------------------------------------------------- *)
(* Documents                                                               *)
(* ---------------------------------------------------------------------- *)
\* value of tag.get(key) when the XML attribute is not there
Absent == "<absent>"
\* Python's None, as an element and as an identifier
None == 0
NoneId == "<None>"

AttrKeys == {"xmi:type", "name", "xmi:id", "classifier", "definingFeature", "symbol"}

NoAttrs == [k \in AttrKeys |-> Absent]

Elem(tag, attrs) == [tag |-> tag, parent |-> 0, attrs |-> attrs @@ NoAttrs]

\* <packagedElement xmi:type=... name=... xmi:id=.../>
Class(name, id) ==
    Elem("packagedElement",
         ("xmi:type" :> "uml:Class") @@ ("name" :> name) @@ ("xmi:id" :> id))

\* <packagedElement xmi:type="uml:InstanceSpecification" name=... classifier=.../>
Instance(name, classifier) ==
    Elem("packagedElement",
         ("xmi:type" :> "uml:InstanceSpecification") @@ ("name" :> name)
            @@ ("classifier" :> classifier))

\* <ownedAttribute xmi:id=... name=.../>
OwnedAttribute(id, name) ==
    Elem("ownedAttribute", ("xmi:id" :> id) @@ ("name" :> name))

\* <slot definingFeature=.../>
Slot(feature) == Elem("slot", ("definingFeature" :> feature))

\* <value symbol=.../>
Value(symbol) == Elem("value", ("symbol" :> symbol))

\* which element may be written inside which (0 is the document)
CanContain(doc, p, tag) ==
    IF p = 0 THEN tag = "packagedElement"
    ELSE CASE doc[p].tag = "packagedElement" ->
                 tag \in {"packagedElement", "nestedClassifier", "ownedAttribute", "slot"}
           [] doc[p].tag = "nestedClassifier" -> tag \in {"ownedAttribute"}
           [] doc[p].tag = "slot" -> tag \in {"value"}
           [] OTHER -> FALSE

RECURSIVE AncestorsOrSelf(_, _)
AncestorsOrSelf(doc, i) ==
    IF i = 0 THEN {0} ELSE {i} \cup AncestorsOrSelf(doc, doc[i].parent)

\* the elements still open after the last element of doc was read
OpenElements(doc) == AncestorsOrSelf(doc, Len(doc))

\* the documents obtained by writing one more element of the palette
Extend(doc, palette) ==
    { Append(doc, [e EXCEPT !.parent = p]) :
        <<e, p>> \in { ep \in palette \X OpenElements(doc) :
                          CanContain(doc, ep[2], ep[1].tag) } }

(* ---------------------------------------------------------------------- *)
(* BeautifulSoup searches                                                  *)
(* ---------------------------------------------------------------------- *)
\* a filter value given as a string, and one given as a list of strings
Str(s) == [list |-> FALSE, v |-> s]
List(l) == [list |-> TRUE, v |-> l]

\* bs4 matches an attribute value against a filter value: a missing
\* attribute matches only a false filter value ('' or []), a list matches
\* when one of its strings does, a string matches when equal
Matches(markup, match_against) ==
    IF markup = Absent
    THEN (IF match_against.list THEN match_against.v = <<>> ELSE match_against.v = "")
    ELSE IF match_against.list
         THEN \E k \in 1..Len(match_against.v) : markup = match_against.v[k]
         ELSE markup = match_against.v

\* the search criteria of find / find_all: a tag name and attribute filters
MatchesTag(doc, i, name, attrs) ==
    /\ doc[i].tag = name
    /\ \A k \in DOMAIN attrs : Matches(doc[i].attrs[k], attrs[k])

\* element i lies inside element root (every element lies inside the document)
RECURSIVE IsDescendant(_, _, _)
IsDescendant(doc, i, root) ==
    IF root = 0 THEN TRUE
    ELSE IF doc[i].parent = 0 THEN FALSE
    ELSE doc[i].parent = root \/ IsDescendant(doc, doc[i].parent, root)

\* root.find_all(name, attrs): walk the elements after root in document
\* order, keep the matching descendants
RECURSIVE FindAllFrom(_, _, _, _, _)
FindAllFrom(doc, root, name, attrs, i) ==
    IF i > Len(doc) THEN <<>>
    ELSE (IF IsDescendant(doc, i, root) /\ MatchesTag(doc, i, name, attrs)
          THEN <<i>> ELSE <<>>)
         \o FindAllFrom(doc, root, name, attrs, i + 1)

find_all(doc, root, name, attrs) == FindAllFrom(doc, root, name, attrs, root + 1)

\* root.find(name, attrs): the first result of find_all, or None
find(doc, root, name, attrs) ==
    LET l == find_all(doc, root, name, attrs) IN
    IF l = <<>> THEN None ELSE l[1]

NoFilter == <<>>

(* ---------------------------------------------------------------------- *)
(* The functions of xml_data_scrapper.py                                   *)
(* ---------------------------------------------------------------------- *)
\* get_station_id searching on the name alone
get_station_id_AnyType(soup) ==
    LET station == find(soup, 0, "packagedElement", ("name" :> List(<<"Station">>)))
    IN  IF station # None
        THEN <<soup[station].attrs["xmi:id"], station>>
        ELSE <<NoneId, None>>

\* get_station_id, once the file is read and parsed into soup
get_station_id(soup) ==
    LET station == find(soup, 0, "packagedElement",
                        ("xmi:type" :> Str("uml:Class")) @@ ("name" :> List(<<"Station">>)))
    IN  IF station # None
        THEN <<soup[station].attrs["xmi:id"], station>>
        ELSE <<NoneId, None>>

\* get_station_attributes searching the document instead of the class element
get_station_attributes_WholeDocument(soup, station_element) ==
    LET attributes == find_all(soup, 0, "ownedAttribute", NoFilter)
    IN  [k \in 1..Len(attributes) |-> soup[attributes[k]].attrs["xmi:id"]]

get_station_attributes(soup, station_element) ==
    LET attributes == find_all(soup, station_element, "ownedAttribute", NoFilter)
    IN  [k \in 1..Len(attributes) |-> soup[attributes[k]].attrs["xmi:id"]]

\* get_station_instances searching on the classifier alone
get_station_instances_AnyType(soup, station_classifier_id) ==
    find_all(soup, 0, "packagedElement", ("classifier" :> Str(station_classifier_id)))

get_station_instances(soup, station_classifier_id) ==
    find_all(soup, 0, "packagedElement",
             ("xmi:type" :> Str("uml:InstanceSpecification"))
                @@ ("classifier" :> Str(station_classifier_id)))

NoValue == "Aucune valeur"

\* SlotEntry keeping a slot whose attribute is not found, under its identifier
SlotEntry_KeepsDangling(soup, slot) ==
    LET defining_feature_id == soup[slot].attrs["definingFeature"]
        attribute == find(soup, 0, "ownedAttribute", ("xmi:id" :> Str(defining_feature_id)))
        value == find(soup, slot, "value", NoFilter)
    IN  << [attribute_name  |-> IF attribute # None
                                THEN soup[attribute].attrs["name"]
                                ELSE defining_feature_id,
            attribute_value |-> IF value # None
                                THEN soup[value].attrs["symbol"]
                                ELSE NoValue] >>

\* SlotEntry taking the value from the document instead of the slot
SlotEntry_DocumentValue(soup, slot) ==
    LET defining_feature_id == soup[slot].attrs["definingFeature"]
        attribute == find(soup, 0, "ownedAttribute", ("xmi:id" :> Str(defining_feature_id)))
    IN  IF attribute # None
        THEN LET value == find(soup, 0, "value", NoFilter)
             IN  << [attribute_name  |-> soup[attribute].attrs["name"],
                     attribute_value |-> IF value # None
                                         THEN soup[value].attrs["symbol"]
                                         ELSE NoValue] >>
        ELSE <<>>

\* SlotEntry looking the attribute up in the Station class only
SlotEntry_StationOnly(soup, slot) ==
    LET defining_feature_id == soup[slot].attrs["definingFeature"]
        attribute == find(soup, get_station_id(soup)[2], "ownedAttribute",
                          ("xmi:id" :> Str(defining_feature_id)))
    IN  IF attribute # None
        THEN LET value == find(soup, slot, "value", NoFilter)
             IN  << [attribute_name  |-> soup[attribute].attrs["name"],
                     attribute_value |-> IF value # None
                                         THEN soup[value].attrs["symbol"]
                                         ELSE NoValue] >>
        ELSE <<>>

\* the entry a slot appends to station_data['attributes'], if any
SlotEntry(soup, slot) ==
    LET defining_feature_id == soup[slot].attrs["definingFeature"]
        attribute == find(soup, 0, "ownedAttribute", ("xmi:id" :> Str(defining_feature_id)))
    IN  IF attribute # None
        THEN LET value == find(soup, slot, "value", NoFilter)
             IN  << [attribute_name  |-> soup[attribute].attrs["name"],
                     attribute_value |-> IF value # None
                                         THEN soup[value].attrs["symbol"]
                                         ELSE NoValue] >>
        ELSE <<>>

\* the inner loop of print_station_details over slots[k..]
RECURSIVE SlotEntries(_, _, _)
SlotEntries(soup, slots, k) ==
    IF k > Len(slots) THEN <<>>
    ELSE SlotEntry(soup, slots[k]) \o SlotEntries(soup, slots, k + 1)

\* StationData taking the slots of the whole document
StationData_AllSlots(soup, station_instance) ==
    LET slots == find_all(soup, 0, "slot", NoFilter)
    IN  [station_name |-> soup[station_instance].attrs["name"],
         attributes   |-> SlotEntries(soup, slots, 1)]

\* the body of the outer loop: the record of one instance
StationData(soup, station_instance) ==
    LET slots == find_all(soup, station_instance, "slot", NoFilter)
    IN  [station_name |-> soup[station_instance].attrs["name"],
         attributes   |-> SlotEntries(soup, slots, 1)]

RECURSIVE StationDetailsFrom(_, _, _)
StationDetailsFrom(soup, station_instances, k) ==
    IF k > Len(station_instances) THEN <<>>
    ELSE <<StationData(soup, station_instances[k])>>
         \o StationDetailsFrom(soup, station_instances, k + 1)

print_station_details(station_instances, soup) ==
    StationDetailsFrom(soup, station_instances, 1)

\* what print_station_details prints: per record a header, then an attribute line each
RECURSIVE PrintedLines(_, _)
PrintedLines(station_details, k) ==
    IF k > Len(station_details) THEN <<>>
    ELSE <<"station">>
         \o [j \in 1..Len(station_details[k].attributes) |-> "attribute"]
         \o PrintedLines(station_details, k + 1)

(* ---------------------------------------------------------------------- *)
(* Input documents                                                         *)
(* ---------------------------------------------------------------------- *)
\* the elements the input file of each specification is written with
PaletteLocate ==
    { Class("Station", "C1"), Class("Station", "C2"), Class("Other", "C3"),
      Instance("Station", "C1"),
      Elem("nestedClassifier",
           ("xmi:type" :> "uml:Class") @@ ("name" :> "Station") @@ ("xmi:id" :> "C4")) }

PaletteAttributes ==
    { Class("Station", "C1"), Class("Other", "C3"),
      Elem("nestedClassifier",
           ("xmi:type" :> "uml:Class") @@ ("name" :> "Inner") @@ ("xmi:id" :> "C4")),
      OwnedAttribute("A1", "Name"), OwnedAttribute("A2", "Power") }

PaletteInstances ==
    { Instance("UPS1", "C1"), Instance("UPS2", "C1"), Instance("UPS3", "C2"),
      Elem("packagedElement",
           ("xmi:type" :> "uml:Class") @@ ("name" :> "Other") @@ ("xmi:id" :> "C3")
              @@ ("classifier" :> "C1")),
      Elem("nestedClassifier",
           ("xmi:type" :> "uml:InstanceSpecification") @@ ("name" :> "UPS4")
              @@ ("classifier" :> "C1")) }

PaletteBuild ==
    { Instance("UPS1", "C1"), Instance("UPS2", "C1"),
      OwnedAttribute("A1", "Name"), OwnedAttribute("A1", "Alias"),
      Slot("A1"), Slot("A9"), Value("V1"), Value("V2") }

PaletteLookup ==
    { Class("Station", "C1"), Instance("UPS1", "C1"),
      OwnedAttribute("A1", "Name"), OwnedAttribute("A1", "Alias"),
      OwnedAttribute("A2", "Power"), Slot("A1"), Slot("A2") }

PaletteMain ==
    { Class("Station", "C1"), Class("Station", ""),
      Instance("UPS1", "C1"), Instance("UPS2", "C2"),
      OwnedAttribute("A1", "Name"), Slot("A1"), Slot("A9") }

\* the class identifiers get_station_instances is asked for
ClassifierIds == {"C1", "C2", "C9"}

(* ---------------------------------------------------------------------- *)
(* State                                                                   *)
(* ---------------------------------------------------------------------- *)
VARIABLES
    doc,                \* content of the input file UPS1.xmi, as a document
    pc,                 \* "input" while the input file is being written, then
                        \* the position of main, or "returned" after a single call
    reads,              \* number of completed read-and-parse of the input file
    station_id,         \* locals of main
    station_element,
    attribute_ids,
    station_instances,
    station_details,
    outFile,            \* the output file station_details.json
    opened,             \* number of times the output file was opened for writing
    called,             \* the functions main has called, in order
    stdout,             \* the lines printed
    error,              \* the exception that left main, if any
    call,               \* a single function call: the function and its arguments
    ret                 \* and what it returned

vars == <<doc, pc, reads, station_id, station_element, attribute_ids,
          station_instances, station_details, outFile, opened, called, stdout,
          error, call, ret>>

mainVars == <<reads, station_id, station_element, attribute_ids,
              station_instances, station_details, outFile, opened, called,
              stdout, error>>

Untouched == [state |-> "untouched", content |-> <<>>]
NoCall == [fn |-> "none", arg |-> <<>>]

Init ==
    /\ doc = <<>>
    /\ pc = "input"
    /\ reads = 0
    /\ station_id = NoneId
    /\ station_element = None
    /\ attribute_ids = <<>>
    /\ station_instances = <<>>
    /\ station_details = <<>>
    /\ outFile = Untouched
    /\ opened = 0
    /\ called = <<>>
    /\ stdout = <<>>
    /\ error = "none"
    /\ call = NoCall
    /\ ret = <<>>

\* the input file gets one more element
WriteElement(palette, max) ==
    /\ pc = "input"
    /\ Len(doc) < max
    /\ \E d \in Extend(doc, palette) : doc' = d
    /\ UNCHANGED <<pc, call, ret>>
    /\ UNCHANGED mainVars

(* ---------------------------------------------------------------------- *)
(* main                                                                    *)
(* ---------------------------------------------------------------------- *)
\* Python's "not x" for a string or None
Falsy(id) == id = NoneId \/ id = ""

\* an exception leaves main
Raise(kind) ==
    /\ pc' = "raised"
    /\ error' = kind

\* main is started on the input file
StartMain ==
    /\ pc = "input"
    /\ pc' = "step1"
    /\ UNCHANGED <<doc, call, ret>>
    /\ UNCHANGED mainVars

\* step 1: get_station_id reads and parses the file, then main tests station_id
Step1 ==
    /\ pc = "step1"
    /\ called' = Append(called, "get_station_id")
    /\ \/ /\ Raise("read")
          /\ UNCHANGED <<reads, station_id, station_element, stdout>>
       \/ /\ reads' = reads + 1
          /\ station_id' = get_station_id(doc)[1]
          /\ station_element' = get_station_id(doc)[2]
          /\ IF Falsy(station_id')
             THEN stdout' = Append(stdout, "no class") /\ pc' = "done"
             ELSE stdout' = Append(stdout, "class id") /\ pc' = "step2"
          /\ UNCHANGED error
    /\ UNCHANGED <<doc, attribute_ids, station_instances, station_details,
                   outFile, opened, call, ret>>

\* step 2 going on without attribute identifiers
Step2_NoEmptyTest ==
    /\ pc = "step2"
    /\ called' = Append(called, "get_station_attributes")
    /\ attribute_ids' = get_station_attributes(doc, station_element)
    /\ stdout' = stdout \o <<"attribute ids">>
                        \o [k \in 1..Len(attribute_ids') |-> "attribute id"]
    /\ pc' = "step3"
    /\ UNCHANGED <<doc, reads, station_id, station_element, station_instances,
                   station_details, outFile, opened, error, call, ret>>

\* step 2: the attribute identifiers of the class
Step2 ==
    /\ pc = "step2"
    /\ called' = Append(called, "get_station_attributes")
    /\ attribute_ids' = get_station_attributes(doc, station_element)
    /\ IF attribute_ids' = <<>>
       THEN stdout' = Append(stdout, "no attribute") /\ pc' = "done"
       ELSE /\ stdout' = stdout \o <<"attribute ids">>
                            \o [k \in 1..Len(attribute_ids') |-> "attribute id"]
            /\ pc' = "step3"
    /\ UNCHANGED <<doc, reads, station_id, station_element, station_instances,
                   station_details, outFile, opened, error, call, ret>>

\* step 3 with the output file opened for writing before the second read
Step3_OpensOutputFirst ==
    /\ pc = "step3"
    /\ opened' = opened + 1
    /\ outFile' = [state |-> "partial", content |-> <<>>]
    /\ \/ Raise("read") /\ UNCHANGED reads
       \/ reads' = reads + 1 /\ pc' = "step4" /\ UNCHANGED error
    /\ UNCHANGED <<doc, station_id, station_element, attribute_ids,
                   station_instances, station_details, called, stdout, call, ret>>

\* step 3: the file is read and parsed a second time
Step3 ==
    /\ pc = "step3"
    /\ \/ Raise("read") /\ UNCHANGED reads
       \/ reads' = reads + 1 /\ pc' = "step4" /\ UNCHANGED error
    /\ UNCHANGED <<doc, station_id, station_element, attribute_ids,
                   station_instances, station_details, outFile, opened, called,
                   stdout, call, ret>>

\* step 4 going on without instances
Step4_NoEmptyTest ==
    /\ pc = "step4"
    /\ called' = Append(called, "get_station_instances")
    /\ station_instances' = get_station_instances(doc, station_id)
    /\ pc' = "step5"
    /\ UNCHANGED <<doc, reads, station_id, station_element, attribute_ids,
                   station_details, outFile, opened, error, stdout, call, ret>>

\* step 4: the instances of the class
Step4 ==
    /\ pc = "step4"
    /\ called' = Append(called, "get_station_instances")
    /\ station_instances' = get_station_instances(doc, station_id)
    /\ IF station_instances' = <<>>
       THEN stdout' = Append(stdout, "no instance") /\ pc' = "done"
       ELSE stdout' = stdout /\ pc' = "step5"
    /\ UNCHANGED <<doc, reads, station_id, station_element, attribute_ids,
                   station_details, outFile, opened, error, call, ret>>

\* step 5, first half: the records are built and printed
Step5 ==
    /\ pc = "step5"
    /\ called' = Append(called, "print_station_details")
    /\ station_details' = print_station_details(station_instances, doc)
    /\ stdout' = stdout \o PrintedLines(station_details', 1)
    /\ pc' = "save"
    /\ UNCHANGED <<doc, reads, station_id, station_element, attribute_ids,
                   station_instances, outFile, opened, error, call, ret>>

\* step 5, second half: save_station_details_to_json opens the output file
\* for writing and dumps the records; either may fail
Save ==
    /\ pc = "save"
    /\ called' = Append(called, "save_station_details_to_json")
    /\ \/ /\ Raise("open")
          /\ UNCHANGED <<outFile, opened, stdout>>
       \/ /\ Raise("write")
          /\ opened' = opened + 1
          /\ outFile' = [state |-> "partial", content |-> <<>>]
          /\ UNCHANGED stdout
       \/ /\ opened' = opened + 1
          /\ outFile' = [state |-> "written", content |-> station_details]
          /\ stdout' = Append(stdout, "saved")
          /\ pc' = "done"
          /\ UNCHANGED error
    /\ UNCHANGED <<doc, reads, station_id, station_element, attribute_ids,
                   station_instances, station_details, call, ret>>

WriteMain == WriteElement(PaletteMain, MaxMainNodes)

Next ==
    \/ WriteMain
    \/ StartMain
    \/ Step1
    \/ Step2
    \/ Step3
    \/ Step4
    \/ Step5
    \/ Save

Spec == Init /\ [][Next]_vars

(* ---------------------------------------------------------------------- *)
(* Single calls of the functions on an input document                      *)
(* ---------------------------------------------------------------------- *)
Return(fn, arg, value) ==
    /\ pc = "input"
    /\ pc' = "returned"
    /\ call' = [fn |-> fn, arg |-> arg]
    /\ ret' = value
    /\ UNCHANGED doc
    /\ UNCHANGED mainVars

CallGetStationId == Return("get_station_id", <<>>, get_station_id(doc))

\* the class elements of the document
ClassElements(d) == { i \in 1..Len(d) : d[i].attrs["xmi:type"] = "uml:Class" }

CallGetStationAttributes ==
    \E e \in ClassElements(doc) :
        Return("get_station_attributes", e, get_station_attributes(doc, e))

CallGetStationInstances ==
    \E id \in ClassifierIds :
        Return("get_station_instances", id, get_station_instances(doc, id))

Reverse(l) == [k \in 1..Len(l) |-> l[Len(l) + 1 - k]]

\* print_station_details on the instances of class C1, in both orders
CallPrintStationDetails ==
    \E l \in { get_station_instances(doc, "C1"),
               Reverse(get_station_instances(doc, "C1")) } :
        Return("print_station_details", l, print_station_details(l, doc))

WriteLocate == WriteElement(PaletteLocate, MaxNodes)
NextLocate == WriteLocate \/ CallGetStationId
SpecLocate == Init /\ [][NextLocate]_vars

WriteAttributes == WriteElement(PaletteAttributes, MaxNodes)
NextAttributes == WriteAttributes \/ CallGetStationAttributes
SpecAttributes == Init /\ [][NextAttributes]_vars

WriteInstances == WriteElement(PaletteInstances, MaxNodes)
NextInstances == WriteInstances \/ CallGetStationInstances
SpecInstances == Init /\ [][NextInstances]_vars

WriteBuild == WriteElement(PaletteBuild, MaxNodes)
NextBuild == WriteBuild \/ CallPrintStationDetails
SpecBuild == Init /\ [][NextBuild]_vars

WriteLookup == WriteElement(PaletteLookup, MaxNodes)
NextLookup == WriteLookup \/ CallPrintStationDetails
SpecLookup == Init /\ [][NextLookup]_vars

(* ---------------------------------------------------------------------- *)
(* Vocabulary of the properties                                            *)
(* ---------------------------------------------------------------------- *)
Range(l) == { l[k] : k \in 1..Len(l) }

\* element i is written inside element r
Inside(d, i, r) == r \in AncestorsOrSelf(d, d[i].parent)

\* the k-th smallest member of a set of elements: document order
KthOf(S, k) == CHOOSE x \in S : Cardinality({ y \in S : y < x }) = k - 1
InDocumentOrder(S) == [k \in 1..Cardinality(S) |-> KthOf(S, k)]
First(S) == KthOf(S, 1)

StationClasses(d) ==
    { i \in 1..Len(d) : /\ d[i].tag = "packagedElement"
                        /\ d[i].attrs["xmi:type"] = "uml:Class"
                        /\ d[i].attrs["name"] = "Station" }

AttributesIn(d, e) ==
    { i \in 1..Len(d) : d[i].tag = "ownedAttribute" /\ Inside(d, i, e) }

InstancesOf(d, id) ==
    { i \in 1..Len(d) : /\ d[i].tag = "packagedElement"
                        /\ d[i].attrs["xmi:type"] = "uml:InstanceSpecification"
                        /\ d[i].attrs["classifier"] = id }

\* the ownedAttribute elements of the whole document that carry identifier id
Declarations(d, id) ==
    { i \in 1..Len(d) : d[i].tag = "ownedAttribute" /\ d[i].attrs["xmi:id"] = id }

SlotsIn(d, e) == { i \in 1..Len(d) : d[i].tag = "slot" /\ Inside(d, i, e) }

Dangling(d, s) == Declarations(d, d[s].attrs["definingFeature"]) = {}

\* the slots of instance e that yield an entry
ResolvedSlots(d, e) == { s \in SlotsIn(d, e) : ~Dangling(d, s) }

ValuesOf(d, s) == { i \in 1..Len(d) : d[i].tag = "value" /\ d[i].parent = s }

(* ---------------------------------------------------------------------- *)
(* Properties                                                              *)
(* ---------------------------------------------------------------------- *)
\* C5: get_station_id returns the xmi:id and the element of the first
\* packagedElement, in document order, of type uml:Class and named
\* "Station", and the pair (None, None) when the document has none.
C5_FirstStationOrNone ==
    call.fn = "get_station_id" =>
        IF StationClasses(doc) = {}
        THEN ret = <<NoneId, None>>
        ELSE ret = <<doc[First(StationClasses(doc))].attrs["xmi:id"],
                     First(StationClasses(doc))>>

\* two classes named Station with different identifiers, behind an element
\* that is not such a class: the first class was returned
C5_Witness ==
    /\ call.fn = "get_station_id"
    /\ \E i, j \in StationClasses(doc) :
          /\ 1 < i /\ i < j
          /\ doc[i].attrs["xmi:id"] # doc[j].attrs["xmi:id"]
          /\ ret = <<doc[i].attrs["xmi:id"], i>>

\* C6: get_station_attributes returns one identifier per ownedAttribute
\* element of the class element (its owned-attribute children, direct or
\* nested as in section 4.2 of the specification), in document order; the
\* empty list when there is none.
C6_OneIdPerAttribute ==
    call.fn = "get_station_attributes" =>
        LET owned == InDocumentOrder(AttributesIn(doc, call.arg)) IN
        /\ Len(ret) = Cardinality(AttributesIn(doc, call.arg))
        /\ \A k \in 1..Len(ret) : ret[k] = doc[owned[k]].attrs["xmi:id"]

\* a class with two attributes of different identifiers, and an attribute
\* of the document outside the class
C6_Witness ==
    /\ call.fn = "get_station_attributes"
    /\ Len(ret) = 2
    /\ ret[1] # ret[2]
    /\ \E i \in 1..Len(doc) :
          doc[i].tag = "ownedAttribute" /\ i \notin AttributesIn(doc, call.arg)

\* C2: get_station_instances returns exactly the packagedElement nodes of
\* type uml:InstanceSpecification whose classifier equals the identifier
\* asked for, in document order.
C2_ExactlyTheInstances ==
    call.fn = "get_station_instances" =>
        /\ Range(ret) = InstancesOf(doc, call.arg)
        /\ \A k \in 1..Len(ret) - 1 : ret[k] < ret[k + 1]

\* two instances are returned, one written inside the other, while the
\* document also has an instance of another class and an element with the
\* classifier asked for that is no instance specification
C2_Witness ==
    /\ call.fn = "get_station_instances"
    /\ Len(ret) = 2
    /\ Inside(doc, ret[2], ret[1])
    /\ \E i \in 1..Len(doc) :
          /\ doc[i].attrs["xmi:type"] = "uml:InstanceSpecification"
          /\ doc[i].attrs["classifier"] \notin {call.arg, Absent}
    /\ \E i \in 1..Len(doc) :
          /\ doc[i].attrs["classifier"] = call.arg
          /\ i \notin Range(ret)

\* the entries of record k of a result, and the slots that produced them
SlotsOfRecord(k) == InDocumentOrder(ResolvedSlots(doc, call.arg[k]))

\* C7: print_station_details returns one record per input instance, in
\* input order, named after that instance; the attribute entries of a
\* record are those of the slots of the instance that yield one, in the
\* document order of these slots; no instance, no record.
C7_OneRecordPerInstance ==
    call.fn = "print_station_details" =>
        /\ Len(ret) = Len(call.arg)
        /\ \A k \in 1..Len(ret) :
              /\ ret[k].station_name = doc[call.arg[k]].attrs["name"]
              /\ Len(ret[k].attributes) = Len(SlotsOfRecord(k))
              /\ \A j \in 1..Len(ret[k].attributes) :
                    <<ret[k].attributes[j]>> = SlotEntry(doc, SlotsOfRecord(k)[j])

\* two instances of different names given against document order, one of
\* them with an entry
C7_Witness ==
    /\ call.fn = "print_station_details"
    /\ Len(ret) = 2
    /\ call.arg[1] > call.arg[2]
    /\ ret[1].station_name # ret[2].station_name
    /\ \E k \in 1..2 : ret[k].attributes # <<>>

C4_ValueAlwaysPresent ==
    call.fn = "print_station_details" =>
        \A k \in 1..Len(ret) :
            \A j \in 1..Len(ret[k].attributes) :
                LET values == ValuesOf(doc, SlotsOfRecord(k)[j]) IN
                /\ "attribute_value" \in DOMAIN ret[k].attributes[j]
                /\ ret[k].attributes[j].attribute_value
                      = IF values = {} THEN "Aucune valeur"
                        ELSE doc[First(values)].attrs["symbol"]

\* a record with an entry of a slot without value and an entry of a slot
\* with one
C4_Witness ==
    /\ call.fn = "print_station_details"
    /\ \E k \in 1..Len(ret) :
          \E i, j \in 1..Len(ret[k].attributes) :
              /\ ValuesOf(doc, SlotsOfRecord(k)[i]) = {}
              /\ ret[k].attributes[i].attribute_value = "Aucune valeur"
              /\ ValuesOf(doc, SlotsOfRecord(k)[j]) # {}
              /\ ret[k].attributes[j].attribute_value # "Aucune valeur"

\* the number of elements that element s spans: itself and those inside it
Span(d, s) == 1 + Cardinality({ i \in 1..Len(d) : Inside(d, i, s) })

\* the index of element i once the n elements from s on are taken out
Renumbered(s, n, i) == IF i > s THEN i - n ELSE i

\* document d without element s and the elements inside it, which follow
\* it immediately in document order
Without(d, s) ==
    LET n == Span(d, s) IN
    [k \in 1..(Len(d) - n) |->
        [d[IF k < s THEN k ELSE k + n] EXCEPT !.parent = Renumbered(s, n, @)]]

DanglingSlots(d) == { s \in 1..Len(d) : d[s].tag = "slot" /\ Dangling(d, s) }

\* C3: a slot whose definingFeature is the identifier of no ownedAttribute
\* of the document yields no entry, and the result is what it would be were
\* that slot not in the document.
C3_DanglingSlotDropped ==
    call.fn = "print_station_details" =>
        \A s \in DanglingSlots(doc) :
            ret = print_station_details(
                      [k \in 1..Len(call.arg) |->
                          Renumbered(s, Span(doc, s), call.arg[k])],
                      Without(doc, s))

\* an instance with a dangling slot followed by a slot that yields an entry
C3_Witness ==
    /\ call.fn = "print_station_details"
    /\ \E k \in 1..Len(ret) :
          \E s, t \in SlotsIn(doc, call.arg[k]) :
              /\ s < t
              /\ Dangling(doc, s)
              /\ ~Dangling(doc, t)
              /\ Len(ret[k].attributes) = 1

\* what main looks for in the document
TheStation(d) == First(StationClasses(d))
TheStationId(d) == d[TheStation(d)].attrs["xmi:id"]
ClassFound(d) == StationClasses(d) # {} /\ TheStationId(d) # ""
HasAttributes(d) == ClassFound(d) /\ AttributesIn(d, TheStation(d)) # {}
HasInstances(d) == ClassFound(d) /\ InstancesOf(d, TheStationId(d)) # {}

\* C1: when the Station class is not found, or has no owned attribute, or
\* has no instance, main stops at the stage that finds this out: no later
\* stage runs (without attributes get_station_instances is not called) and
\* save_station_details_to_json is not called, so nothing is written.
C1_StopsWhereAbsenceDetected ==
    /\ ~ClassFound(doc) =>
          /\ pc \in {"input", "step1", "done", "raised"}
          /\ Len(called) <= 1
    /\ ClassFound(doc) /\ ~HasAttributes(doc) =>
          /\ pc \in {"input", "step1", "step2", "done", "raised"}
          /\ Len(called) <= 2
          /\ "get_station_instances" \notin Range(called)
          /\ reads <= 1
    /\ HasAttributes(doc) /\ ~HasInstances(doc) =>
          /\ pc \notin {"step5", "save"}
          /\ Len(called) <= 3
    /\ ~(ClassFound(doc) /\ HasAttributes(doc) /\ HasInstances(doc)) =>
          /\ "save_station_details_to_json" \notin Range(called)
          /\ outFile = Untouched
          /\ opened = 0

\* main is done on a document whose Station class has instances but no
\* attribute: it stopped after get_station_attributes
C1_Witness ==
    /\ pc = "done"
    /\ ClassFound(doc)
    /\ ~HasAttributes(doc)
    /\ HasInstances(doc)
    /\ called = <<"get_station_id", "get_station_attributes">>
    /\ outFile = Untouched

\* C9: a failure to read or parse the input, at the first read or at the
\* second, leaves main as an exception and leaves the output file as it
\* was: the output file is opened for writing only once both reads are done.
C9_ReadsBeforeOutput ==
    /\ error = "read" => pc = "raised" /\ outFile = Untouched /\ opened = 0
    /\ opened >= 1 => reads = 2

\* the second read failed on a document that has the class, an attribute
\* and an instance
C9_Witness ==
    /\ error = "read"
    /\ reads = 1
    /\ HasAttributes(doc)
    /\ HasInstances(doc)
    /\ outFile = Untouched

\* main has found the Station class, which has an owned attribute and an
\* instance
Exportable == reads >= 1 /\ ClassFound(doc) /\ HasAttributes(doc) /\ HasInstances(doc)

\* C10 as stated: in any run the output file is written at most once, and
\* if and only if the class was found with a non-empty identifier, has an
\* owned attribute and has an instance; the array written has one record
\* per instance.
C10_WrittenIffExportable ==
    /\ opened <= 1
    /\ pc \in {"done", "raised"} => (opened = 1 <=> Exportable)
    /\ outFile.state = "written" =>
          /\ outFile.content # <<>>
          /\ Len(outFile.content) = Cardinality(InstancesOf(doc, TheStationId(doc)))

\* C10, amended: in any run the output file is written at most once and
\* only if the class is found with a non-empty identifier, has an owned
\* attribute and has an instance; a run that ends without an exception
\* writes it if and only if these hold; the array written has one record
\* per instance.
C10_WrittenIffExportableAndNoException ==
    /\ opened <= 1
    /\ opened = 1 => Exportable
    /\ pc = "done" => (opened = 1 <=> Exportable)
    /\ outFile.state = "written" =>
          /\ outFile.content # <<>>
          /\ Len(outFile.content) = Cardinality(InstancesOf(doc, TheStationId(doc)))

\* the file is written with a record of no attribute entry, for an
\* instance that has a slot
C10_Witness ==
    /\ pc = "done"
    /\ outFile.state = "written"
    /\ \A k \in 1..Len(outFile.content) : outFile.content[k].attributes = <<>>
    /\ \E i \in InstancesOf(doc, TheStationId(doc)) : SlotsIn(doc, i) # {}

====
